---- MODULE Spec2Model ----
(***************************************************************************)
(* Model of static/js/icons.js: the IconManager class (lookup table,       *)
(* applyIcons with its navigation and interface passes, addIcon, the       *)
(* static init) run against a document whose readiness changes from        *)
(* "loading" to "interactive" to "complete".                               *)
(*                                                                         *)
(* Texts and hrefs are sequences of one-character strings, so that         *)
(* String.prototype.includes, toLowerCase and trim are computed, not       *)
(* assumed.  Attribute values and icon identifiers are plain strings.      *)
(***************************************************************************)
EXTENDS Integers, Sequences, FiniteSets, TLC

\* ------------------------------------------------------------------ bounds
\* Elements of the kinds the passes select (nav items, menu toggles, send
\* buttons, file/metric icons) in one document.
MaxElems == 2
\* DOMContentLoaded callbacks that may be registered (init() calls made
\* while the document is loading).
MaxListeners == 2
\* addIcon() calls made by other scripts of the page.
MaxAddIcon == 1

\* ----------------------------------------------------------------- strings
S_slash == <<"/">>
S_index == <<"/", "i", "n", "d", "e", "x">>
S_slash_teacher == <<"/", "t", "e", "a", "c", "h", "e", "r">>
S_slash_student == <<"/", "s", "t", "u", "d", "e", "n", "t">>
S_slash_analytics == <<"/", "a", "n", "a", "l", "y", "t", "i", "c", "s">>
S_teacher == <<"t", "e", "a", "c", "h", "e", "r">>
S_student == <<"s", "t", "u", "d", "e", "n", "t">>
S_analytics == <<"a", "n", "a", "l", "y", "t", "i", "c", "s">>
S_TutorIA == <<"T", "u", "t", "o", "r", " ", "I", "A">>
S_Relatorio == <<"R", "e", "l", "a", "t", "ó", "r", "i", "o">>
S_Documento == <<"D", "o", "c", "u", "m", "e", "n", "t", "o">>
S_professor == <<"p", "r", "o", "f", "e", "s", "s", "o", "r">>
S_estudante == <<"e", "s", "t", "u", "d", "a", "n", "t", "e">>
S_metricas == <<"m", "é", "t", "r", "i", "c", "a", "s">>
S_pergunta == <<"p", "e", "r", "g", "u", "n", "t", "a">>
S_questao == <<"q", "u", "e", "s", "t", "ã", "o">>
S_usuario == <<"u", "s", "u", "á", "r", "i", "o">>
S_disciplina == <<"d", "i", "s", "c", "i", "p", "l", "i", "n", "a">>
S_materia == <<"m", "a", "t", "é", "r", "i", "a">>
S_tempo == <<"t", "e", "m", "p", "o">>
S_resposta == <<"r", "e", "s", "p", "o", "s", "t", "a">>

\* String.prototype.includes: needle occurs as a contiguous run of hay.
Includes(hay, needle) ==
    \E i \in 0..(Len(hay) - Len(needle)) :
        SubSeq(hay, i + 1, i + Len(needle)) = needle

\* String.prototype.toLowerCase on the letters the sample texts use.
UpperToLower ==
    "A" :> "a" @@ "D" :> "d" @@ "E" :> "e" @@ "I" :> "i" @@ "P" :> "p"
    @@ "R" :> "r" @@ "S" :> "s" @@ "T" :> "t"

LowerChar(c) == IF c \in DOMAIN UpperToLower THEN UpperToLower[c] ELSE c

ToLowerCase(s) == [i \in 1..Len(s) |-> LowerChar(s[i])]

WhiteSpace == {" ", "\n", "\t"}

\* String.prototype.trim: leading and trailing white space removed.
RECURSIVE TrimLeft(_)
TrimLeft(s) ==
    IF s # <<>> /\ Head(s) \in WhiteSpace THEN TrimLeft(Tail(s)) ELSE s

RECURSIVE TrimRight(_)
TrimRight(s) ==
    IF s # <<>> /\ s[Len(s)] \in WhiteSpace
    THEN TrimRight(SubSeq(s, 1, Len(s) - 1))
    ELSE s

Trim(s) == TrimRight(TrimLeft(s))

\* ------------------------------------------------------------- attributes
\* An element's data-lucide attribute: absent, or present with a value.
NoAttr == [has |-> FALSE, val |-> ""]
Attr(v) == [has |-> TRUE, val |-> v]

\* An element's href attribute: getAttribute('href') is null when absent.
NoHref == [has |-> FALSE, val |-> <<>>]
Href(s) == [has |-> TRUE, val |-> s]

\* ---------------------------------------------------------------- iconMap
iconMap ==
    "home" :> "home" @@ "teacher" :> "graduation-cap" @@ "student" :> "user"
    @@ "analytics" :> "bar-chart-3" @@ "bot" :> "bot"
    @@ "reports" :> "file-text" @@ "documents" :> "folder"
    @@ "menu" :> "menu" @@ "send" :> "send" @@ "upload" :> "upload"
    @@ "download" :> "download" @@ "delete" :> "trash-2"
    @@ "edit" :> "edit-2" @@ "search" :> "search"
    @@ "settings" :> "settings" @@ "close" :> "x" @@ "check" :> "check"
    @@ "plus" :> "plus" @@ "minus" :> "minus"
    @@ "chart" :> "bar-chart-3" @@ "pie-chart" :> "pie-chart"
    @@ "trending-up" :> "trending-up" @@ "trending-down" :> "trending-down"
    @@ "users" :> "users" @@ "clock" :> "clock" @@ "calendar" :> "calendar"
    @@ "success" :> "check-circle" @@ "error" :> "x-circle"
    @@ "warning" :> "alert-triangle" @@ "info" :> "info"

\* iconMap is an object literal: a property read that misses the own keys
\* goes on to Object.prototype.  The inherited members, each with the string
\* setAttribute would store for it.
ObjectPrototype ==
    "constructor" :> "function Object() { [native code] }"
    @@ "toString" :> "function toString() { [native code] }"
    @@ "__proto__" :> "[object Object]"

\* this.iconMap[iconName]: the value read, and whether it is truthy.
iconMapLookup(name) ==
    IF name \in DOMAIN iconMap
    THEN [truthy |-> iconMap[name] # "", val |-> iconMap[name]]
    ELSE IF name \in DOMAIN ObjectPrototype
    THEN [truthy |-> TRUE, val |-> ObjectPrototype[name]]
    ELSE [truthy |-> FALSE, val |-> "undefined"]

\* ------------------------------------------------------- navigation pass
\* A .nav-item element: its href, its textContent, and its first
\* .nav-item-icon descendant (present or not, with its data-lucide).
NavItem(href, text, hasIcon, attr) ==
    [href |-> href, text |-> text, hasIcon |-> hasIcon, attr |-> attr]

\* The guard without its hasAttribute test.
navIconUnsetIgnoringAttribute(item) == item.hasIcon

\* iconElement && !iconElement.hasAttribute('data-lucide')
navIconUnset(item) == item.hasIcon /\ ~item.attr.has

\* The if / else-if chain choosing iconName.  href === '/' and
\* href === '/index' compare a null href without error; the next condition
\* calls href.includes, a TypeError on null.
navIconName(item) ==
    LET href == item.href
        text == item.text
        name(n) == [threw |-> FALSE, name |-> n]
    IN  IF href.has /\ (href.val = S_slash \/ href.val = S_index)
        THEN name(iconMap["home"])
        ELSE IF ~href.has
        THEN [threw |-> TRUE, name |-> ""]
        ELSE IF href.val = S_slash_teacher \/ Includes(href.val, S_teacher)
        THEN name(iconMap["teacher"])
        ELSE IF href.val = S_slash_student \/ Includes(href.val, S_student)
        THEN name(iconMap["student"])
        ELSE IF href.val = S_slash_analytics \/ Includes(href.val, S_analytics)
        THEN name(iconMap["analytics"])
        ELSE IF Includes(text, S_TutorIA)
        THEN name(iconMap["bot"])
        ELSE IF Includes(text, S_Relatorio)
        THEN name(iconMap["reports"])
        ELSE IF Includes(text, S_Documento)
        THEN name(iconMap["documents"])
        ELSE name("")

\* iconElement.tagName = 'i'.  Element.prototype.tagName is an accessor with
\* a getter and no setter, and a class body is strict-mode code: the
\* assignment raises a TypeError.
tagNameAssignmentThrows == TRUE

\* The forEach callback on one nav item: the item afterwards, and whether
\* the callback raised.
navItemCallback(item) ==
    IF ~navIconUnset(item)
    THEN [item |-> item, threw |-> FALSE]
    ELSE LET r == navIconName(item)
         IN  IF r.threw
             THEN [item |-> item, threw |-> TRUE]
             ELSE IF r.name # ""
             THEN [item  |-> [item EXCEPT !.attr = Attr(r.name)],
                   threw |-> tagNameAssignmentThrows]
             ELSE [item |-> item, threw |-> FALSE]

\* navItems.forEach from item i on, in document order; an exception in a
\* callback ends the loop.
RECURSIVE navForEach(_, _)
navForEach(nav, i) ==
    IF i > Len(nav)
    THEN [nav |-> nav, threw |-> FALSE]
    ELSE LET r == navItemCallback(nav[i])
             nav2 == [nav EXCEPT ![i] = r.item]
         IN  IF r.threw
             THEN [nav |-> nav2, threw |-> TRUE]
             ELSE navForEach(nav2, i + 1)

applyNavigationIcons(d) ==
    LET r == navForEach(d.nav, 1)
    IN  [doc |-> [d EXCEPT !.nav = r.nav], threw |-> r.threw]

\* -------------------------------------------------------- interface pass
\* Markup a .mobile-menu-toggle or a send button may hold.
MenuMarkup == "<i data-lucide=\"menu\"></i>"
SendMarkup == "<i data-lucide=\"send\"></i>"
PlainMarkup == "<span></span>"
OtherIconMarkup == "<i data-lucide=\"x\"></i>"
SvgSendMarkup == "<svg class=\"send-icon\"></svg>"

\* btn.querySelector('[data-lucide]') finds a descendant.
HasLucideDescendant(html) == html \in {MenuMarkup, SendMarkup, OtherIconMarkup}

\* btn.querySelector('svg.send-icon') finds a descendant.
HasSvgSendIcon(html) == html = SvgSendMarkup

menuButtonCallback(html) ==
    IF ~HasLucideDescendant(html) THEN MenuMarkup ELSE html

sendButtonCallback(html) ==
    IF HasSvgSendIcon(html) THEN SendMarkup ELSE html

\* A .file-icon and/or .metric-icon element: its classes, its data-lucide,
\* its own textContent, and its ancestors that are .document-item or
\* .metric-card, nearest first, each with its textContent.
IconElem(isFile, isMetric, attr, text, anc) ==
    [isFile |-> isFile, isMetric |-> isMetric, attr |-> attr, text |-> text,
     anc |-> anc]

Container(cls, text) == [cls |-> cls, text |-> text]

\* icon.closest(selector): the nearest ancestor of one of the classes, as a
\* sequence of zero or one containers.
RECURSIVE closest(_, _)
closest(anc, classes) ==
    IF anc = <<>> THEN <<>>
    ELSE IF Head(anc).cls \in classes THEN <<Head(anc)>>
    ELSE closest(Tail(anc), classes)

\* !icon.hasAttribute('data-lucide') && icon.textContent.trim() === ''
iconUnset(icon) == ~icon.attr.has /\ Trim(icon.text) = <<>>

\* The file-icon chain over the container's lower-cased text.
fileIconName(text) ==
    IF Includes(text, S_professor) \/ Includes(text, S_teacher)
    THEN iconMap["teacher"]
    ELSE IF Includes(text, S_estudante) \/ Includes(text, S_student)
    THEN iconMap["student"]
    ELSE IF Includes(text, S_analytics) \/ Includes(text, S_metricas)
    THEN iconMap["analytics"]
    ELSE iconMap["documents"]

\* The metric-icon chain with the student category's table entry in place
\* of the literal 'users'.
metricIconNameFromTable(text) ==
    IF Includes(text, S_pergunta) \/ Includes(text, S_questao)
    THEN "message-circle"
    ELSE IF Includes(text, S_estudante) \/ Includes(text, S_usuario)
    THEN iconMap["student"]
    ELSE IF Includes(text, S_disciplina) \/ Includes(text, S_materia)
    THEN "book"
    ELSE IF Includes(text, S_tempo) \/ Includes(text, S_resposta)
    THEN "clock"
    ELSE "bar-chart-3"

\* The metric-icon chain over the container's lower-cased text.
metricIconName(text) ==
    IF Includes(text, S_pergunta) \/ Includes(text, S_questao)
    THEN "message-circle"
    ELSE IF Includes(text, S_estudante) \/ Includes(text, S_usuario)
    THEN "users"
    ELSE IF Includes(text, S_disciplina) \/ Includes(text, S_materia)
    THEN "book"
    ELSE IF Includes(text, S_tempo) \/ Includes(text, S_resposta)
    THEN "clock"
    ELSE "bar-chart-3"

fileIconCallback(icon) ==
    IF icon.isFile /\ iconUnset(icon)
    THEN LET parent == closest(icon.anc, {"document-item", "metric-card"})
         IN  IF parent # <<>>
             THEN [icon EXCEPT
                     !.attr = Attr(fileIconName(ToLowerCase(parent[1].text)))]
             ELSE icon
    ELSE icon

metricIconCallback(icon) ==
    IF icon.isMetric /\ iconUnset(icon)
    THEN LET parent == closest(icon.anc, {"metric-card"})
         IN  IF parent # <<>>
             THEN [icon EXCEPT
                     !.attr = Attr(metricIconName(ToLowerCase(parent[1].text)))]
             ELSE icon
    ELSE icon

\* The four loops in order: menu toggles, send buttons, file icons, metric
\* icons (an element of both classes is visited by both of the last two).
applyInterfaceIcons(d) ==
    LET menus == [i \in 1..Len(d.menus) |-> menuButtonCallback(d.menus[i])]
        sends == [i \in 1..Len(d.sends) |-> sendButtonCallback(d.sends[i])]
        afterFile == [i \in 1..Len(d.icons) |-> fileIconCallback(d.icons[i])]
        afterMetric ==
            [i \in 1..Len(d.icons) |-> metricIconCallback(afterFile[i])]
    IN  [d EXCEPT !.menus = menus, !.sends = sends, !.icons = afterMetric]

\* ------------------------------------------------------------- applyIcons
\* One call: the document afterwards and the events of the call in order
\* ("throw": the call ended by an exception, "return": it ran to its end).
applyIcons(d, lib) ==
    LET n == applyNavigationIcons(d)
    IN  IF n.threw
        THEN [doc |-> n.doc, log |-> <<"applyIcons", "nav", "throw">>]
        ELSE [doc |-> applyInterfaceIcons(n.doc),
              log |-> <<"applyIcons", "nav", "iface">>
                      \o (IF lib THEN <<"render">> ELSE <<>>)
                      \o <<"return">>]

\* k calls one after the other (the callbacks of one event: an exception in
\* one listener is reported and the next listener still runs).
RECURSIVE applyIconsTimes(_, _, _)
applyIconsTimes(d, lib, k) ==
    IF k = 0
    THEN [doc |-> d, log |-> <<>>]
    ELSE LET first == applyIcons(d, lib)
             rest == applyIconsTimes(first.doc, lib, k - 1)
         IN  [doc |-> rest.doc, log |-> first.log \o rest.log]

\* ---------------------------------------------------------------- addIcon
\* The element addIcon is handed: the icon child of nav item idx, or
\* file/metric icon idx.
Target(kind, idx) == [kind |-> kind, idx |-> idx]
NoTarget == Target("none", 0)

setDataLucide(d, target, v) ==
    IF target.kind = "nav"
    THEN [d EXCEPT !.nav[target.idx].attr = Attr(v)]
    ELSE [d EXCEPT !.icons[target.idx].attr = Attr(v)]

addIcon(d, lib, target, name) ==
    LET found == iconMapLookup(name)
    IN  IF found.truthy
        THEN [doc |-> setDataLucide(d, target, found.val),
              log |-> <<"addIcon", "setAttribute">>
                      \o (IF lib THEN <<"render">> ELSE <<>>)
                      \o <<"return">>]
        ELSE [doc |-> d, log |-> <<"addIcon", "return">>]

\* -------------------------------------------------------- sample documents
T_TutorIA == <<"T", "u", "t", "o", "r", " ", "I", "A">>
T_DocRel == <<"D", "o", "c", "u", "m", "e", "n", "t", "o", " ", "R", "e", "l", "a", "t", "ó", "r", "i", "o">>
T_Sobre == <<"S", "o", "b", "r", "e">>
H_teacherStudent == <<"/", "t", "e", "a", "c", "h", "e", "r", "/", "s", "t", "u", "d", "e", "n", "t">>
H_docs == <<"/", "d", "o", "c", "s">>
T_Estudante == <<"E", "s", "t", "u", "d", "a", "n", "t", "e">>
T_ProfEstudante == <<"P", "r", "o", "f", "e", "s", "s", "o", "r", " ", "e", "s", "t", "u", "d", "a", "n", "t", "e">>
T_PerguntaEstudante == <<"p", "e", "r", "g", "u", "n", "t", "a", " ", "e", "s", "t", "u", "d", "a", "n", "t", "e">>
T_Total == <<"T", "o", "t", "a", "l">>
T_Arquivo == <<"A", "r", "q", "u", "i", "v", "o">>
T_ArquivoTempo == <<"A", "r", "q", "u", "i", "v", "o", " ", "t", "e", "m", "p", "o">>
T_space == <<" ">>
T_x == <<"x">>

\* Nav items: one per branch of the chain, one whose icon child has a
\* data-lucide already ("star" is an identifier no rule produces), one
\* with no icon child.
NavSamples ==
    {NavItem(NoHref, T_TutorIA, TRUE, NoAttr),
     NavItem(Href(S_slash), T_Sobre, TRUE, NoAttr),
     NavItem(Href(S_index), T_TutorIA, TRUE, NoAttr),
     NavItem(Href(H_teacherStudent), T_Sobre, TRUE, NoAttr),
     NavItem(Href(S_slash_teacher), T_TutorIA, TRUE, NoAttr),
     NavItem(Href(H_docs), T_TutorIA, TRUE, NoAttr),
     NavItem(Href(H_docs), T_DocRel, TRUE, NoAttr),
     NavItem(Href(H_docs), T_Sobre, TRUE, NoAttr),
     NavItem(Href(S_slash_student), T_DocRel, TRUE, NoAttr),
     NavItem(Href(S_slash_analytics), T_Sobre, TRUE, NoAttr),
     NavItem(NoHref, T_Sobre, TRUE, NoAttr),
     NavItem(Href(S_slash), T_Sobre, TRUE, Attr("star")),
     NavItem(NoHref, T_TutorIA, TRUE, Attr("star")),
     NavItem(Href(H_teacherStudent), T_TutorIA, FALSE, NoAttr)}

\* The few the page-lifecycle specification builds its documents from.
CoreNavSamples ==
    {NavItem(NoHref, T_TutorIA, TRUE, NoAttr),
     NavItem(Href(S_slash), T_Sobre, TRUE, NoAttr),
     NavItem(Href(H_docs), T_Sobre, TRUE, NoAttr),
     NavItem(Href(S_slash), T_Sobre, TRUE, Attr("star"))}

MenuSamples == {PlainMarkup, OtherIconMarkup, MenuMarkup}

CoreMenuSamples == {PlainMarkup}

SendSamples == {SvgSendMarkup, PlainMarkup, SendMarkup}

CoreSendSamples == {SvgSendMarkup}

A_docEstudante == <<Container("document-item", T_Estudante)>>
A_docProfEstudante == <<Container("document-item", T_ProfEstudante)>>
A_cardEstudante == <<Container("metric-card", T_Estudante)>>
A_cardPerguntaEstudante == <<Container("metric-card", T_PerguntaEstudante)>>
A_cardTotal == <<Container("metric-card", T_Total)>>
A_docInCard ==
    <<Container("document-item", T_Arquivo),
      Container("metric-card", T_ArquivoTempo)>>

IconSamples ==
    {IconElem(TRUE, FALSE, NoAttr, <<>>, A_docEstudante),
     IconElem(TRUE, FALSE, NoAttr, <<>>, A_docProfEstudante),
     IconElem(TRUE, FALSE, NoAttr, T_space, A_docInCard),
     IconElem(TRUE, FALSE, NoAttr, <<>>, <<>>),
     IconElem(TRUE, FALSE, Attr("star"), <<>>, A_docEstudante),
     IconElem(FALSE, TRUE, NoAttr, <<>>, A_docInCard),
     IconElem(FALSE, TRUE, NoAttr, <<>>, A_cardEstudante),
     IconElem(FALSE, TRUE, NoAttr, <<>>, A_cardPerguntaEstudante),
     IconElem(FALSE, TRUE, NoAttr, <<>>, A_cardTotal),
     IconElem(FALSE, TRUE, NoAttr, T_x, A_cardEstudante),
     IconElem(TRUE, FALSE, NoAttr, <<>>, A_cardTotal),
     IconElem(TRUE, TRUE, NoAttr, <<>>, A_cardEstudante),
     IconElem(TRUE, TRUE, NoAttr, <<>>, A_docInCard)}

CoreIconSamples ==
    {IconElem(FALSE, TRUE, NoAttr, <<>>, A_cardEstudante),
     IconElem(TRUE, FALSE, Attr("star"), <<>>, A_docEstudante)}

\* How many elements of each kind (nav, menus, sends, icons) a document has.
Splits ==
    {k \in [1..4 -> 0..MaxElems] : k[1] + k[2] + k[3] + k[4] <= MaxElems}

\* The documents of at most MaxElems elements drawn from the given samples.
DocsOver(navS, menuS, sendS, iconS) ==
    UNION {
        {[nav |-> a, menus |-> b, sends |-> c, icons |-> e] :
            a \in [1..k[1] -> navS], b \in [1..k[2] -> menuS],
            c \in [1..k[3] -> sendS], e \in [1..k[4] -> iconS]} :
        k \in Splits}

Docs == DocsOver(NavSamples, MenuSamples, SendSamples, IconSamples)

CoreDocs ==
    DocsOver(CoreNavSamples, CoreMenuSamples, CoreSendSamples, CoreIconSamples)

\* Names other scripts hand to addIcon.
NameSamples == {"success", "nonexistent", "", "constructor"}

\* The elements of document d that addIcon may be handed.
Targets(d) ==
    {Target("nav", i) : i \in {j \in 1..Len(d.nav) : d.nav[j].hasIcon}}
    \cup {Target("icon", i) : i \in 1..Len(d.icons)}

\* ------------------------------------------------------------------ state
VARIABLES
    doc,         \* the live document: nav items, menu toggles, send buttons, icons
    readyState,  \* document.readyState
    dclFired,    \* DOMContentLoaded has been dispatched
    listeners,   \* DOMContentLoaded callbacks registered by init()
    lucide,      \* typeof lucide !== 'undefined'
    loaded,      \* icons.js has been evaluated (the class is reachable)
    addCalls,    \* addIcon() calls made so far
    last         \* the last step: the call or event, its arguments, its events

vars == <<doc, readyState, dclFired, listeners, lucide, loaded, addCalls, last>>

Last(op, target, name, log) ==
    [op |-> op, target |-> target, name |-> name, log |-> log]

\* The page as it starts to load, icons.js not yet evaluated.
Init ==
    /\ doc \in CoreDocs
    /\ readyState = "loading"
    /\ dclFired = FALSE
    /\ listeners = 0
    /\ lucide = FALSE
    /\ loaded = FALSE
    /\ addCalls = 0
    /\ last = Last("none", NoTarget, "", <<>>)

\* The readiness test taken as always true, and as always false.
documentLoadingAlways == TRUE

documentLoadingNever == FALSE

\* document.readyState === 'loading'
documentLoading == readyState = "loading"

\* static init(): a new manager; a DOMContentLoaded callback while the
\* document is loading, applyIcons() at once otherwise.
init ==
    IF documentLoading
    THEN /\ listeners < MaxListeners
         /\ listeners' = listeners + 1
         /\ doc' = doc
         /\ last' = Last("init", NoTarget, "", <<"addEventListener">>)
    ELSE LET r == applyIcons(doc, lucide)
         IN  /\ doc' = r.doc
             /\ listeners' = listeners
             /\ last' = Last("init", NoTarget, "", r.log)

\* The script's own last statements: IconManager.init() as it is evaluated.
ScriptLoad ==
    /\ ~loaded
    /\ init
    /\ loaded' = TRUE
    /\ UNCHANGED <<readyState, dclFired, lucide, addCalls>>

\* IconManager.init() called again by another script.
CallInit ==
    /\ loaded
    /\ init
    /\ UNCHANGED <<readyState, dclFired, lucide, loaded, addCalls>>

\* manager.applyIcons() called by another script.
CallApplyIcons ==
    /\ loaded
    /\ LET r == applyIcons(doc, lucide)
       IN  /\ doc' = r.doc
           /\ last' = Last("applyIcons", NoTarget, "", r.log)
    /\ UNCHANGED <<readyState, dclFired, listeners, lucide, loaded, addCalls>>

\* manager.addIcon(element, iconName) called by another script.
CallAddIcon ==
    /\ loaded
    /\ addCalls < MaxAddIcon
    /\ \E target \in Targets(doc), name \in NameSamples :
          LET r == addIcon(doc, lucide, target, name)
          IN  /\ doc' = r.doc
              /\ last' = Last("addIcon", target, name, r.log)
    /\ addCalls' = addCalls + 1
    /\ UNCHANGED <<readyState, dclFired, listeners, lucide, loaded>>

\* The parser finishes: readyState leaves 'loading'.
BecomeInteractive ==
    /\ readyState = "loading"
    /\ readyState' = "interactive"
    /\ last' = Last("readystatechange", NoTarget, "", <<>>)
    /\ UNCHANGED <<doc, dclFired, listeners, lucide, loaded, addCalls>>

\* The document dispatches DOMContentLoaded, once: every registered callback
\* runs manager.applyIcons().
DOMContentLoaded ==
    /\ readyState = "interactive"
    /\ ~dclFired
    /\ dclFired' = TRUE
    /\ LET r == applyIconsTimes(doc, lucide, listeners)
       IN  /\ doc' = r.doc
           /\ last' = Last("DOMContentLoaded", NoTarget, "", r.log)
    /\ UNCHANGED <<readyState, listeners, lucide, loaded, addCalls>>

BecomeComplete ==
    /\ readyState = "interactive"
    /\ dclFired
    /\ readyState' = "complete"
    /\ last' = Last("readystatechange", NoTarget, "", <<>>)
    /\ UNCHANGED <<doc, dclFired, listeners, lucide, loaded, addCalls>>

\* The icon library's script is evaluated: the global lucide is defined.
LoadLucide ==
    /\ ~lucide
    /\ lucide' = TRUE
    /\ last' = Last("lucideLoaded", NoTarget, "", <<>>)
    /\ UNCHANGED <<doc, readyState, dclFired, listeners, loaded, addCalls>>

Next ==
    \/ ScriptLoad
    \/ CallInit
    \/ CallApplyIcons
    \/ CallAddIcon
    \/ BecomeInteractive
    \/ DOMContentLoaded
    \/ BecomeComplete
    \/ LoadLucide

\* The page's whole life: loading, the script's own init(), the readiness
\* event, and calls by other scripts.
Spec == Init /\ [][Next]_vars

\* A loaded page into which content has been inserted since, from the full
\* sample sets, and the calls that run the passes over it.
InitApply ==
    /\ doc \in Docs
    /\ readyState = "complete"
    /\ dclFired = TRUE
    /\ listeners = 0
    /\ lucide \in BOOLEAN
    /\ loaded = TRUE
    /\ addCalls = 0
    /\ last = Last("none", NoTarget, "", <<>>)

NextApply ==
    \/ CallInit
    \/ CallApplyIcons

SpecApply == InitApply /\ [][NextApply]_vars

\* ================================================================= claims
\* How often event e occurs in a log.
Count(log, e) == Cardinality({i \in DOMAIN log : log[i] = e})

\* The step into the primed state ran applyIcons() at least once.
RanApplyIcons == Count(last'.log, "applyIcons") >= 1

\* The step into the primed state got as far as the interface pass.
RanInterfacePass == Count(last'.log, "iface") >= 1

\* The navigation rules as the specification lists them, in its order.
NavRules ==
    <<"home", "teacher", "student", "analytics", "Tutor IA", "Relatório",
      "Documento">>

NavRuleIcon ==
    "home" :> "home" @@ "teacher" :> "graduation-cap" @@ "student" :> "user"
    @@ "analytics" :> "bar-chart-3" @@ "Tutor IA" :> "bot"
    @@ "Relatório" :> "file-text" @@ "Documento" :> "folder"

NavRuleHolds(item, rule) ==
    CASE rule = "home" ->
            item.href.has /\ item.href.val \in {S_slash, S_index}
      [] rule = "teacher" ->
            item.href.has /\ Includes(item.href.val, S_teacher)
      [] rule = "student" ->
            item.href.has /\ Includes(item.href.val, S_student)
      [] rule = "analytics" ->
            item.href.has /\ Includes(item.href.val, S_analytics)
      [] rule = "Tutor IA" -> Includes(item.text, S_TutorIA)
      [] rule = "Relatório" -> Includes(item.text, S_Relatorio)
      [] rule = "Documento" -> Includes(item.text, S_Documento)

RulesHolding(item) == {k \in DOMAIN NavRules : NavRuleHolds(item, NavRules[k])}

Min(S) == CHOOSE x \in S : \A y \in S : x <= y

FirstRuleIcon(item) == NavRuleIcon[NavRules[Min(RulesHolding(item))]]

\* The nav items of d whose icon child exists and has no data-lucide.
UnsetNavItems(d) ==
    {i \in DOMAIN d.nav : d.nav[i].hasIcon /\ ~d.nav[i].attr.has}

\* C1: after applyIcons() has run, every nav item whose icon child had no
\* data-lucide and which matches one navigation rule carries that rule's
\* identifier -- every such item of the document, not only the first.
C1_EveryMatchingNavItemLabelled ==
    [][RanApplyIcons =>
          \A i \in UnsetNavItems(doc) :
              Cardinality(RulesHolding(doc.nav[i])) = 1 =>
                  doc'.nav[i].attr = Attr(FirstRuleIcon(doc.nav[i]))]_vars

\* The data-lucide attribute of the element a target names.
AttrOf(d, target) ==
    IF target.kind = "nav" THEN d.nav[target.idx].attr
    ELSE d.icons[target.idx].attr

\* Every element outside `except` that has a data-lucide keeps its value.
AttributesKept(except) ==
    \A t \in Targets(doc) \ except :
        AttrOf(doc, t).has => AttrOf(doc', t) = AttrOf(doc, t)

C3_AddIconOnlyForTableKeys ==
    [][last'.op = "addIcon" =>
          IF last'.name \in DOMAIN iconMap
          THEN /\ AttrOf(doc', last'.target) = Attr(iconMap[last'.name])
               /\ Count(last'.log, "render") = (IF lucide THEN 1 ELSE 0)
          ELSE /\ doc' = doc
               /\ Count(last'.log, "render") = 0]_vars

\* C4: no call raises an error.
C4_NothingFatal == Count(last.log, "throw") = 0

\* The nearest container of the given classes among an icon's ancestors.
Nearest(anc, classes) ==
    LET hits == {k \in DOMAIN anc : anc[k].cls \in classes}
    IN  IF hits = {} THEN <<>> ELSE <<anc[Min(hits)]>>

HasAny(text, needles) == \E n \in needles : Includes(text, n)

FileNeedles ==
    {S_professor, S_teacher, S_estudante, S_student, S_analytics, S_metricas}

MetricNeedles ==
    {S_pergunta, S_questao, S_estudante, S_usuario, S_disciplina, S_materia,
     S_tempo, S_resposta}

EmptyUnset(icon) == ~icon.attr.has /\ Trim(icon.text) = <<>>

\* C5 as stated: once the interface pass has run, an empty file or metric
\* icon without data-lucide whose nearest container's lower-cased text
\* includes 'estudante' carries 'user', and one whose container's text has
\* no recognised substring carries the fallback of its kind.
C5_EstudanteIsUser ==
    [][RanInterfacePass =>
          \A i \in DOMAIN doc.icons :
              LET icon == doc.icons[i]
                  fc == Nearest(icon.anc, {"document-item", "metric-card"})
                  mc == Nearest(icon.anc, {"metric-card"})
              IN  /\ (icon.isFile /\ EmptyUnset(icon) /\ fc # <<>>) =>
                        LET t == ToLowerCase(fc[1].text)
                        IN  /\ Includes(t, S_estudante) =>
                                  doc'.icons[i].attr = Attr("user")
                            /\ ~HasAny(t, FileNeedles) =>
                                  doc'.icons[i].attr = Attr("folder")
                  /\ (icon.isMetric /\ ~icon.isFile /\ EmptyUnset(icon)
                        /\ mc # <<>>) =>
                        LET t == ToLowerCase(mc[1].text)
                        IN  /\ Includes(t, S_estudante) =>
                                  doc'.icons[i].attr = Attr("user")
                            /\ ~HasAny(t, MetricNeedles) =>
                                  doc'.icons[i].attr = Attr("bar-chart-3")]_vars

\* C5 as amended: the file chain puts professor/teacher before estudante and
\* gives 'user'; the metric chain puts pergunta/questão before estudante
\* and gives 'users'; the fallbacks are 'folder' and 'bar-chart-3'.
C5_ContextualInference ==
    [][RanInterfacePass =>
          \A i \in DOMAIN doc.icons :
              LET icon == doc.icons[i]
                  fc == Nearest(icon.anc, {"document-item", "metric-card"})
                  mc == Nearest(icon.anc, {"metric-card"})
              IN  /\ (icon.isFile /\ EmptyUnset(icon) /\ fc # <<>>) =>
                        LET t == ToLowerCase(fc[1].text)
                        IN  /\ (Includes(t, S_estudante)
                                  /\ ~HasAny(t, {S_professor, S_teacher})) =>
                                  doc'.icons[i].attr = Attr("user")
                            /\ ~HasAny(t, FileNeedles) =>
                                  doc'.icons[i].attr = Attr("folder")
                  /\ (icon.isMetric /\ ~icon.isFile /\ EmptyUnset(icon)
                        /\ mc # <<>>) =>
                        LET t == ToLowerCase(mc[1].text)
                        IN  /\ (Includes(t, S_estudante)
                                  /\ ~HasAny(t, {S_pergunta, S_questao})) =>
                                  doc'.icons[i].attr = Attr("users")
                            /\ ~HasAny(t, MetricNeedles) =>
                                  doc'.icons[i].attr = Attr("bar-chart-3")]_vars

\* The interface pass has just run over a metric icon in a card whose text
\* includes 'estudante' and over nothing that stopped it: the icon is 'users'.
C5_Witness ==
    /\ last.op = "applyIcons"
    /\ Count(last.log, "iface") = 1
    /\ \E i \in DOMAIN doc.icons :
          LET icon == doc.icons[i]
              mc == Nearest(icon.anc, {"metric-card"})
          IN  /\ icon.isMetric /\ ~icon.isFile
              /\ mc # <<>>
              /\ Includes(ToLowerCase(mc[1].text), S_estudante)
              /\ icon.attr = Attr("users")

\* C6: init() on a document that is no longer loading runs applyIcons() once
\* within the call and registers no callback; the readiness event runs the
\* callbacks registered while loading and nothing else.
C6_ReadyInitIsSynchronous ==
    [][/\ (last'.op = "init" /\ readyState # "loading") =>
             /\ Count(last'.log, "applyIcons") = 1
             /\ Count(last'.log, "addEventListener") = 0
             /\ listeners' = listeners
       /\ last'.op = "DOMContentLoaded" =>
             Count(last'.log, "applyIcons") = listeners]_vars

\* init() has just run applyIcons() on a document that is interactive, before
\* the readiness event, with no callback registered.
C6_Witness ==
    /\ last.op = "init"
    /\ Count(last.log, "applyIcons") = 1
    /\ readyState = "interactive"
    /\ ~dclFired
    /\ listeners = 0

\* C7: init() on a loading document changes nothing in the document and
\* registers one callback; the readiness event comes once, after loading,
\* and runs applyIcons() once per init() call made while loading.
C7_LoadingInitIsDeferredOnce ==
    [][/\ (last'.op = "init" /\ readyState = "loading") =>
             /\ doc' = doc
             /\ Count(last'.log, "applyIcons") = 0
             /\ listeners' = listeners + 1
       /\ last'.op = "DOMContentLoaded" =>
             /\ readyState # "loading"
             /\ ~dclFired /\ dclFired'
             /\ Count(last'.log, "applyIcons") = listeners]_vars

\* The readiness event has just run the callbacks of two init() calls.
C7_Witness ==
    /\ last.op = "DOMContentLoaded"
    /\ listeners = 2
    /\ Count(last.log, "applyIcons") = 2

\* C8: the nav item the pass reaches first (the first whose icon child has
\* no data-lucide) gets the identifier of the earliest rule it satisfies,
\* in the order home, teacher, student, analytics, 'Tutor IA', 'Relatório',
\* 'Documento'; a text rule decides for an item without href.
C8_FirstMatchingRuleWins ==
    [][(RanApplyIcons /\ UnsetNavItems(doc) # {}) =>
          LET i == Min(UnsetNavItems(doc))
          IN  RulesHolding(doc.nav[i]) # {} =>
                  doc'.nav[i].attr = Attr(FirstRuleIcon(doc.nav[i]))]_vars

\* One applyIcons() call as C9 describes it.
ApplyIconsEvents(lib) ==
    <<"applyIcons", "nav", "iface">>
    \o (IF lib THEN <<"render">> ELSE <<>>) \o <<"return">>

RECURSIVE IsRepetition(_, _)
IsRepetition(log, block) ==
    \/ log = <<>>
    \/ /\ Len(log) >= Len(block)
       /\ SubSeq(log, 1, Len(block)) = block
       /\ IsRepetition(SubSeq(log, Len(block) + 1, Len(log)), block)

\* C9: every applyIcons() call runs the navigation pass, the interface
\* pass, then the render call once if the library is present and not at all
\* if it is absent.
C9_PassesThenRender ==
    Count(last.log, "applyIcons") >= 1 =>
        IsRepetition(last.log, ApplyIconsEvents(lucide))

\* C10: applyIcons() called right after applyIcons() changes nothing in the
\* document.
C10_ApplyIconsIdempotent ==
    [][(last.op = "applyIcons" /\ last'.op = "applyIcons") => doc' = doc]_vars

====
